---- MODULE Spec2Model ----
(***************************************************************************)
(* Model of the poem middlewares SignVerifyMiddleware (param_verify.rs)    *)
(* and NoCacheMiddleware (no_cache.rs).                                    *)
(*                                                                         *)
(* Strings and byte buffers are sequences of byte values 0..255 (ASCII /   *)
(* UTF-8 code units).  i64 values are two's complement numbers held as     *)
(* I64Limbs little-endian limbs of LimbBits bits, so that subtraction and  *)
(* abs() keep their 64-bit width.                                          *)
(***************************************************************************)
EXTENDS Integers, Sequences, FiniteSets, TLC

\* ------------------------------------------------------------------------
\* i64 arithmetic
\* ------------------------------------------------------------------------
LimbBits == 16
LimbBase == 2 ^ LimbBits
I64Limbs == 4
\* Width used for the mathematical (not wrapping) value of an expression.
WideLimbs == I64Limbs + 2

Zeros(n) == [i \in 1..n |-> 0]

RECURSIVE AddLimbs(_, _, _)
\* a + b + c modulo LimbBase^Len(a); a and b have the same length.
AddLimbs(a, b, c) ==
    IF a = <<>> THEN <<>>
    ELSE LET s == Head(a) + Head(b) + c
         IN  <<s % LimbBase>> \o AddLimbs(Tail(a), Tail(b), s \div LimbBase)

NotLimbs(a) == [i \in 1..Len(a) |-> LimbBase - 1 - a[i]]
NegLimbs(a) == AddLimbs(NotLimbs(a), Zeros(Len(a)), 1)
SubLimbs(a, b) == AddLimbs(a, NotLimbs(b), 1)
IsNegative(a) == a[Len(a)] >= LimbBase \div 2
SignExtend(a, n) ==
    a \o [i \in 1..(n - Len(a)) |-> IF IsNegative(a) THEN LimbBase - 1 ELSE 0]
Truncate(a, n) == SubSeq(a, 1, n)

RECURSIVE UnsignedLess(_, _)
UnsignedLess(a, b) ==
    IF a = <<>> THEN FALSE
    ELSE LET n == Len(a)
         IN  IF a[n] # b[n] THEN a[n] < b[n]
             ELSE UnsignedLess(SubSeq(a, 1, n - 1), SubSeq(b, 1, n - 1))

\* signed a < b, same length
SignedLess(a, b) ==
    IF IsNegative(a) # IsNegative(b) THEN IsNegative(a) ELSE UnsignedLess(a, b)

RECURSIVE MulSmall(_, _, _)
\* a * k + c for a small k, modulo LimbBase^Len(a)
MulSmall(a, k, c) ==
    IF a = <<>> THEN <<>>
    ELSE LET s == Head(a) * k + c
         IN  <<s % LimbBase>> \o MulSmall(Tail(a), k, s \div LimbBase)

RECURSIVE DivSmall(_, _, _)
\* unsigned a \div k (r is the running remainder), limbs taken from the top
DivSmall(a, k, r) ==
    IF a = <<>> THEN <<>>
    ELSE LET n == Len(a)
             t == r * LimbBase + a[n]
         IN  DivSmall(SubSeq(a, 1, n - 1), k, t % k) \o <<t \div k>>

RECURSIVE ModSmall(_, _, _)
ModSmall(a, k, r) ==
    IF a = <<>> THEN r
    ELSE LET n == Len(a)
         IN  ModSmall(SubSeq(a, 1, n - 1), k, (r * LimbBase + a[n]) % k)

\* The i64 holding a small integer n (|n| < 2^31).
I64(n) ==
    LET m == IF n < 0 THEN -n ELSE n
        p == <<m % LimbBase, m \div LimbBase>> \o Zeros(I64Limbs - 2)
    IN  IF n < 0 THEN NegLimbs(p) ELSE p

I64Min == Zeros(I64Limbs - 1) \o <<LimbBase \div 2>>
I64Max == [i \in 1..I64Limbs |-> IF i = I64Limbs THEN LimbBase \div 2 - 1 ELSE LimbBase - 1]
Wide(a) == SignExtend(a, WideLimbs)
FitsI64(w) == Wide(Truncate(w, I64Limbs)) = w
WideAbs(w) == IF IsNegative(w) THEN NegLimbs(w) ELSE w

\* i64 subtraction as the build compiles it: with overflow checks the
\* operation panics on overflow, without them it wraps.
I64Sub(a, b, checks) ==
    LET exact == SubLimbs(Wide(a), Wide(b))
    IN  [panic |-> checks /\ ~FitsI64(exact), val |-> Truncate(exact, I64Limbs)]

\* i64::abs: abs(i64::MIN) overflows: a panic with overflow checks, i64::MIN
\* without.
I64Abs(a, checks) ==
    [panic |-> checks /\ a = I64Min,
     val   |-> IF IsNegative(a) THEN NegLimbs(a) ELSE a]

\* |a - b| > w over the integers, with no overflow
ExactlyOutOfWindow(a, b, w) ==
    SignedLess(Wide(w), WideAbs(SubLimbs(Wide(a), Wide(b))))

\* ------------------------------------------------------------------------
\* decimal text of an i64
\* ------------------------------------------------------------------------
Digit0 == 48
PlusSign == 43
MinusSign == 45
IsDigit(c) == c >= Digit0 /\ c <= Digit0 + 9

RECURSIVE ParseDigits(_, _, _)
\* Accumulates the digits of s into the wide magnitude acc; limit is the
\* largest magnitude the sign allows.  Stops at the first non-digit or at
\* the first step that exceeds the limit, as the checked multiply/add do.
ParseDigits(s, acc, limit) ==
    IF s = <<>> THEN [ok |-> TRUE, mag |-> acc]
    ELSE IF ~IsDigit(Head(s)) THEN [ok |-> FALSE, mag |-> acc]
    ELSE LET next == MulSmall(acc, 10, Head(s) - Digit0)
         IN  IF UnsignedLess(limit, next) THEN [ok |-> FALSE, mag |-> acc]
             ELSE ParseDigits(Tail(s), next, limit)

\* str::parse::<i64>(): optional sign, at least one digit, digits only, value
\* in the i64 range.
ParseI64(s) ==
    IF s = <<>> THEN [ok |-> FALSE, val |-> Zeros(I64Limbs)]
    ELSE LET signed == Head(s) \in {PlusSign, MinusSign}
             neg    == Head(s) = MinusSign
             digits == IF signed THEN Tail(s) ELSE s
             limit  == IF neg THEN WideAbs(Wide(I64Min)) ELSE Wide(I64Max)
             r      == ParseDigits(digits, Zeros(WideLimbs), limit)
             v      == Truncate(IF neg THEN NegLimbs(r.mag) ELSE r.mag, I64Limbs)
         IN  IF digits = <<>> THEN [ok |-> FALSE, val |-> Zeros(I64Limbs)]
             ELSE [ok |-> r.ok, val |-> v]

RECURSIVE MagnitudeToDecimal(_)
MagnitudeToDecimal(w) ==
    IF w = Zeros(Len(w)) THEN <<>>
    ELSE MagnitudeToDecimal(DivSmall(w, 10, 0)) \o <<Digit0 + ModSmall(w, 10, 0)>>

\* i64 to_string(), as the client writes the timestamp header
I64ToString(a) ==
    LET w == Wide(a)
    IN  IF w = Zeros(WideLimbs) THEN <<Digit0>>
        ELSE IF IsNegative(w) THEN <<MinusSign>> \o MagnitudeToDecimal(NegLimbs(w))
        ELSE MagnitudeToDecimal(w)

\* ------------------------------------------------------------------------
\* Base64, standard alphabet, padded, canonical
\* ------------------------------------------------------------------------
PadChar == 61

B64Char(i) ==
    IF i < 26 THEN 65 + i
    ELSE IF i < 52 THEN 97 + (i - 26)
    ELSE IF i < 62 THEN 48 + (i - 52)
    ELSE IF i = 62 THEN 43 ELSE 47

IsB64Char(c) ==
    \/ c >= 65 /\ c <= 90
    \/ c >= 97 /\ c <= 122
    \/ c >= 48 /\ c <= 57
    \/ c = 43
    \/ c = 47

B64Index(c) ==
    IF c >= 65 /\ c <= 90 THEN c - 65
    ELSE IF c >= 97 /\ c <= 122 THEN c - 97 + 26
    ELSE IF c >= 48 /\ c <= 57 THEN c - 48 + 52
    ELSE IF c = 43 THEN 62 ELSE 63

RECURSIVE Base64Encode(_)
\* general_purpose::STANDARD.encode
Base64Encode(b) ==
    IF b = <<>> THEN <<>>
    ELSE IF Len(b) = 1 THEN
        <<B64Char(b[1] \div 4), B64Char((b[1] % 4) * 16), PadChar, PadChar>>
    ELSE IF Len(b) = 2 THEN
        <<B64Char(b[1] \div 4),
          B64Char((b[1] % 4) * 16 + b[2] \div 16),
          B64Char((b[2] % 16) * 4), PadChar>>
    ELSE
        <<B64Char(b[1] \div 4),
          B64Char((b[1] % 4) * 16 + b[2] \div 16),
          B64Char((b[2] % 16) * 4 + b[3] \div 64),
          B64Char(b[3] % 64)>> \o Base64Encode(SubSeq(b, 4, Len(b)))

\* number of '=' characters ending s
PadCount(s) ==
    IF Len(s) >= 2 /\ s[Len(s)] = PadChar /\ s[Len(s) - 1] = PadChar THEN 2
    ELSE IF Len(s) >= 1 /\ s[Len(s)] = PadChar THEN 1
    ELSE 0

\* The texts STANDARD.decode accepts: whole quads, alphabet symbols followed
\* by at most two '=' in the last quad, no set bits beyond the last byte.
Base64Valid(s) ==
    LET n == Len(s)
        p == PadCount(s)
    IN  /\ n % 4 = 0
        /\ \A i \in 1..(n - p) : IsB64Char(s[i])
        /\ p = 1 => B64Index(s[n - 1]) % 4 = 0
        /\ p = 2 => B64Index(s[n - 2]) % 16 = 0

RECURSIVE Base64DecodeQuads(_)
Base64DecodeQuads(s) ==
    IF s = <<>> THEN <<>>
    ELSE LET a == B64Index(s[1])
             b == B64Index(s[2])
             c == IF s[3] = PadChar THEN 0 ELSE B64Index(s[3])
             d == IF s[4] = PadChar THEN 0 ELSE B64Index(s[4])
             bytes == <<a * 4 + b \div 16, (b % 16) * 16 + c \div 4, (c % 4) * 64 + d>>
             keep == IF s[3] = PadChar THEN 1 ELSE IF s[4] = PadChar THEN 2 ELSE 3
         IN  SubSeq(bytes, 1, keep) \o Base64DecodeQuads(SubSeq(s, 5, Len(s)))

\* general_purpose::STANDARD.decode: Ok(bytes) or Err
Base64Decode(s) ==
    IF Base64Valid(s) THEN [ok |-> TRUE, bytes |-> Base64DecodeQuads(s)]
    ELSE [ok |-> FALSE, bytes |-> <<>>]

\* ------------------------------------------------------------------------
\* UTF-8
\* ------------------------------------------------------------------------
IsCont(b, i) == i <= Len(b) /\ b[i] >= 128 /\ b[i] <= 191
InRange(b, i, lo, hi) == i <= Len(b) /\ b[i] >= lo /\ b[i] <= hi

RECURSIVE IsUtf8(_)
\* String::from_utf8 succeeds
IsUtf8(b) ==
    IF b = <<>> THEN TRUE
    ELSE LET c == b[1]
             rest(k) == SubSeq(b, k + 1, Len(b))
         IN  IF c <= 127 THEN IsUtf8(rest(1))
             ELSE IF c >= 194 /\ c <= 223 THEN IsCont(b, 2) /\ IsUtf8(rest(2))
             ELSE IF c = 224 THEN
                 InRange(b, 2, 160, 191) /\ IsCont(b, 3) /\ IsUtf8(rest(3))
             ELSE IF c = 237 THEN
                 InRange(b, 2, 128, 159) /\ IsCont(b, 3) /\ IsUtf8(rest(3))
             ELSE IF c >= 225 /\ c <= 239 THEN
                 IsCont(b, 2) /\ IsCont(b, 3) /\ IsUtf8(rest(3))
             ELSE IF c = 240 THEN
                 InRange(b, 2, 144, 191) /\ IsCont(b, 3) /\ IsCont(b, 4) /\ IsUtf8(rest(4))
             ELSE IF c >= 241 /\ c <= 243 THEN
                 IsCont(b, 2) /\ IsCont(b, 3) /\ IsCont(b, 4) /\ IsUtf8(rest(4))
             ELSE IF c = 244 THEN
                 InRange(b, 2, 128, 143) /\ IsCont(b, 3) /\ IsCont(b, 4) /\ IsUtf8(rest(4))
             ELSE FALSE


\* ------------------------------------------------------------------------
\* SHA-256 (FIPS 180-4), as sha2::Sha256 computes it.  A 32-bit word is the
\* pair <<high, low>> of its 16-bit halves.
\* ------------------------------------------------------------------------
HalfBits == 16
HalfBase == 2 ^ HalfBits
NibbleBase == 16
ByteBase == 256
BlockLen == 64
DigestLen == 32

RECURSIVE BitOp(_, _, _, _)
\* a XOR b (xor = TRUE) or a AND b (xor = FALSE) of two n-bit numbers
BitOp(a, b, n, xor) ==
    IF n = 0 THEN 0
    ELSE (IF xor THEN (a + b) % 2 ELSE (a % 2) * (b % 2))
            + 2 * BitOp(a \div 2, b \div 2, n - 1, xor)

RECURSIVE NibbleTable(_, _, _)
\* entries lo .. hi of the table of a 4-bit operation: entry 16 * a + b + 1
\* holds a op b
NibbleTable(lo, hi, xor) ==
    IF lo = hi THEN << BitOp(lo \div NibbleBase, lo % NibbleBase, 4, xor) >>
    ELSE NibbleTable(lo, (lo + hi) \div 2, xor)
            \o NibbleTable((lo + hi) \div 2 + 1, hi, xor)

XorNibbles == NibbleTable(0, NibbleBase * NibbleBase - 1, TRUE)
AndNibbles == NibbleTable(0, NibbleBase * NibbleBase - 1, FALSE)

RECURSIVE NibbleOp(_, _, _, _)
\* the operation of table t on the n low nibbles of a and b
NibbleOp(a, b, n, t) ==
    IF n = 0 THEN 0
    ELSE t[(a % NibbleBase) * NibbleBase + (b % NibbleBase) + 1]
            + NibbleBase * NibbleOp(a \div NibbleBase, b \div NibbleBase, n - 1, t)

\* the operation of table t on the two halves of the words a and b
WordOp(a, b, t) == << NibbleOp(a[1], b[1], 4, t), NibbleOp(a[2], b[2], 4, t) >>

XorByte(a, b) == NibbleOp(a, b, 2, XorNibbles)
WXor(a, b) == WordOp(a, b, XorNibbles)
WAnd(a, b) == WordOp(a, b, AndNibbles)
WNot(a) == << HalfBase - 1 - a[1], HalfBase - 1 - a[2] >>
\* wrapping_add
WAdd(a, b) ==
    << (a[1] + b[1] + (a[2] + b[2]) \div HalfBase) % HalfBase, (a[2] + b[2]) % HalfBase >>

\* the halves hi, lo moved right by n bits, 0 < n < HalfBits, the n bits
\* entering at the top taken from the low bits of fill
ShiftHalves(hi, lo, n, fill) ==
    LET p == 2 ^ n
        q == 2 ^ (HalfBits - n)
    IN  << (hi \div p) + (fill % p) * q, (lo \div p) + (hi % p) * q >>
\* rotate_right(n), 0 < n < 32
RotR(a, n) ==
    IF n = HalfBits THEN << a[2], a[1] >>
    ELSE IF n < HalfBits THEN ShiftHalves(a[1], a[2], n, a[2])
    ELSE ShiftHalves(a[2], a[1], n - HalfBits, a[1])
\* a >> n, 0 < n < 32
ShR(a, n) ==
    IF n < HalfBits THEN ShiftHalves(a[1], a[2], n, 0)
    ELSE << 0, a[1] \div (2 ^ (n - HalfBits)) >>

Ch(x, y, z) == WXor(WAnd(x, y), WAnd(WNot(x), z))
Maj(x, y, z) == WXor(WXor(WAnd(x, y), WAnd(x, z)), WAnd(y, z))
BigSigma0(x) == WXor(WXor(RotR(x, 2), RotR(x, 13)), RotR(x, 22))
BigSigma1(x) == WXor(WXor(RotR(x, 6), RotR(x, 11)), RotR(x, 25))
SmallSigma0(x) == WXor(WXor(RotR(x, 7), RotR(x, 18)), ShR(x, 3))
SmallSigma1(x) == WXor(WXor(RotR(x, 17), RotR(x, 19)), ShR(x, 10))

\* K: the first 32 bits of the fractional parts of the cube roots of the
\* first 64 primes
RoundConstants == <<
    <<17034, 12184>>, <<28983, 17553>>, <<46528, 64463>>, <<59829, 56229>>,
    <<14678, 49755>>, <<23025, 4593>>, <<37439, 33444>>, <<43804, 24277>>,
    <<55303, 43672>>, <<4739, 23297>>, <<9265, 34238>>, <<21772, 32195>>,
    <<29374, 23924>>, <<32990, 45566>>, <<39900, 1703>>, <<49563, 61812>>,
    <<58523, 27073>>, <<61374, 18310>>, <<4033, 40390>>, <<9228, 41420>>,
    <<11753, 11375>>, <<19060, 33962>>, <<23728, 43484>>, <<30457, 35034>>,
    <<38974, 20818>>, <<43057, 50797>>, <<45059, 10184>>, <<48985, 32711>>,
    <<50912, 3059>>, <<54695, 37191>>, <<1738, 25425>>, <<5161, 10599>>,
    <<10167, 2693>>, <<11803, 8504>>, <<19756, 28156>>, <<21304, 3347>>,
    <<25866, 29524>>, <<30314, 2747>>, <<33218, 51502>>, <<37490, 11397>>,
    <<41663, 59553>>, <<43034, 26187>>, <<49739, 35696>>, <<51052, 20899>>,
    <<53650, 59417>>, <<54937, 1572>>, <<62478, 13701>>, <<4202, 41072>>,
    <<6564, 49430>>, <<7735, 27656>>, <<10056, 30540>>, <<13488, 48309>>,
    <<14620, 3251>>, <<20184, 43594>>, <<23452, 51791>>, <<26670, 28659>>,
    <<29839, 33518>>, <<30885, 25455>>, <<33992, 30740>>, <<36039, 520>>,
    <<37054, 65530>>, <<42064, 27883>>, <<48889, 41975>>, <<50801, 30962>> >>

\* H(0): the first 32 bits of the fractional parts of the square roots of
\* the first 8 primes
InitialHash == <<
    <<27145, 58983>>, <<47975, 44677>>, <<15470, 62322>>, <<42319, 62778>>,
    <<20750, 21119>>, <<39685, 26764>>, <<8067, 55723>>, <<23520, 52505>> >>

\* TRUE; TLC evaluates v here, before the operators that use v are entered,
\* which keeps the nesting of the evaluation shallow
Evaluated(v) == v = v

\* the 64-byte block starting after byte off, as sixteen big-endian words
BlockWords(bytes, off) ==
    [i \in 1 .. 16 |->
        << bytes[off + 4 * i - 3] * ByteBase + bytes[off + 4 * i - 2],
           bytes[off + 4 * i - 1] * ByteBase + bytes[off + 4 * i] >>]

RECURSIVE Schedule(_, _, _)
\* the message schedule w extended by its words lo .. hi
Schedule(w, lo, hi) ==
    IF lo = hi
    THEN Append(w, WAdd(WAdd(SmallSigma1(w[lo - 2]), w[lo - 7]),
                        WAdd(SmallSigma0(w[lo - 15]), w[lo - 16])))
    ELSE LET mid == (lo + hi) \div 2
             left == Schedule(w, lo, mid)
         IN  IF Evaluated(left) THEN Schedule(left, mid + 1, hi) ELSE left

\* T1 and T2 of a round on the working variables s = <<a, b, c, d, e, f, g, h>>
T1(s, k, w) == WAdd(WAdd(WAdd(s[8], BigSigma1(s[5])), WAdd(Ch(s[5], s[6], s[7]), k)), w)
T2(s) == WAdd(BigSigma0(s[1]), Maj(s[1], s[2], s[3]))
\* the working variables after the round
Rotated(s, t1, t2) ==
    << WAdd(t1, t2), s[1], s[2], s[3], WAdd(s[4], t1), s[5], s[6], s[7] >>
\* one round with the constant k and the schedule word w
Round(s, k, w) == Rotated(s, T1(s, k, w), T2(s))

RECURSIVE Rounds(_, _, _, _)
\* rounds lo .. hi
Rounds(s, w, lo, hi) ==
    IF lo = hi THEN Round(s, RoundConstants[lo], w[lo])
    ELSE LET mid == (lo + hi) \div 2
             left == Rounds(s, w, lo, mid)
         IN  IF Evaluated(left) THEN Rounds(left, w, mid + 1, hi) ELSE left

\* h plus the working variables s, word by word
AddWords(h, s) == [i \in 1 .. 8 |-> WAdd(h[i], s[i])]
\* the compression function: the hash value h after one more block
Compress(h, block) == AddWords(h, Rounds(h, Schedule(block, 17, 64), 1, 64))

RECURSIVE Blocks(_, _, _, _)
\* the hash value h after blocks lo .. hi of bytes
Blocks(h, bytes, lo, hi) ==
    IF lo = hi THEN Compress(h, BlockWords(bytes, BlockLen * (lo - 1)))
    ELSE LET mid == (lo + hi) \div 2
             left == Blocks(h, bytes, lo, mid)
         IN  IF Evaluated(left) THEN Blocks(left, bytes, mid + 1, hi) ELSE left

\* the message followed by 0x80, zeros and its length in bits as a 64-bit
\* big-endian number, a whole number of blocks (messages under 2 MiB)
Pad(msg) ==
    LET n == Len(msg)
        total == BlockLen * ((n + 8) \div BlockLen + 1)
        bits == n * 8
    IN  [i \in 1 .. total |->
            IF i <= n THEN msg[i]
            ELSE IF i = n + 1 THEN 128
            ELSE IF i = total THEN bits % ByteBase
            ELSE IF i = total - 1 THEN (bits \div ByteBase) % ByteBase
            ELSE IF i = total - 2 THEN (bits \div (ByteBase * ByteBase)) % ByteBase
            ELSE 0]

\* the eight words of h as 32 big-endian bytes
WordBytes(h) ==
    [i \in 1 .. DigestLen |->
        LET half == h[(i + 3) \div 4][IF (i - 1) % 4 < 2 THEN 1 ELSE 2]
        IN  IF i % 2 = 1 THEN half \div ByteBase ELSE half % ByteBase]

\* the digest of a padded message
Digest(padded) == WordBytes(Blocks(InitialHash, padded, 1, Len(padded) \div BlockLen))
Sha256(msg) == Digest(Pad(msg))

\* ------------------------------------------------------------------------
\* HMAC-SHA256 (RFC 2104), as hmac::Hmac<Sha256> computes it
\* ------------------------------------------------------------------------
InnerPad == 54
OuterPad == 92

\* k followed by zeros up to the length of a block
ZeroFill(k) == [i \in 1 .. BlockLen |-> IF i <= Len(k) THEN k[i] ELSE 0]
\* the key as one block: hashed if longer than a block, then zero-filled
BlockKey(key) == ZeroFill(IF Len(key) > BlockLen THEN Sha256(key) ELSE key)
XorPad(k, pad) == [i \in 1 .. BlockLen |-> XorByte(k[i], pad)]
\* H(K ^ opad || H(K ^ ipad || msg)) for the block key k
Keyed(k, msg) == Sha256(XorPad(k, OuterPad) \o Sha256(XorPad(k, InnerPad) \o msg))

\* new_from_slice(key), update(msg), finalize()
HmacCompute(key, msg) == Keyed(BlockKey(key), msg)

\* "your_secret_key"
TestSecret == <<121, 111, 117, 114, 95, 115, 101, 99, 114, 101, 116, 95, 107, 101, 121>>
\* "/api/available-code?address=init&linkType=0"
TestTarget ==
    <<47, 97, 112, 105, 47, 97, 118, 97, 105, 108, 97, 98, 108, 101, 45, 99, 111,
      100, 101, 63, 97, 100, 100, 114, 101, 115, 115, 61, 105, 110, 105, 116, 38,
      108, 105, 110, 107, 84, 121, 112, 101, 61, 48>>
\* "address=init&linkType=0"
TestQuery ==
    <<97, 100, 100, 114, 101, 115, 115, 61, 105, 110, 105, 116, 38, 108, 105, 110,
      107, 84, 121, 112, 101, 61, 48>>
\* the digest test_encode expects: "kEU67gzX2pYgGlhsHXDxg0YtM7z8YYG6cQI8rl22eF4="
TestQueryDigest ==
    <<144, 69, 58, 238, 12, 215, 218, 150, 32, 26, 88, 108, 29, 112, 241, 131, 70,
      45, 51, 188, 252, 97, 129, 186, 113, 2, 60, 174, 93, 182, 120, 94>>
\* the digest test_decode verifies: "OWvqzTbt3GhtPZUIQs9Z8g6KS/FroM7a4EUVWocFWP4="
TestTargetDigest ==
    <<57, 107, 234, 205, 54, 237, 220, 104, 109, 61, 149, 8, 66, 207, 89, 242, 14,
      138, 75, 241, 107, 160, 206, 218, 224, 69, 21, 90, 135, 5, 88, 254>>

\* the comparison of Mac::verify_truncated_left: a prefix of the digest passes
VerifyTruncatedLeft(tag, given) ==
    /\ Len(given) > 0
    /\ Len(given) <= Len(tag)
    /\ given = SubSeq(tag, 1, Len(given))

\* Mac::verify_slice: the given bytes have the digest's length and equal it
VerifySlice(tag, given) == given = tag

\* ------------------------------------------------------------------------
\* requests and responses
\* ------------------------------------------------------------------------
QuestionMark == 63

RECURSIVE LastSegment(_)
\* split('?').last(): the text after the last '?', the whole text if none
LastSegment(s) ==
    IF s = <<>> THEN <<>>
    ELSE IF s[Len(s)] = QuestionMark THEN <<>>
    ELSE LastSegment(SubSeq(s, 1, Len(s) - 1)) \o <<s[Len(s)]>>

HeaderNames == {"cache-control", "expires", "pragma", "content-type"}
NoHeaders == [h \in HeaderNames |-> <<>>]

\* poem::Error::from_string(reason, status)
Reject(status, reason) ==
    [kind |-> "err", status |-> status, reason |-> reason, headers |-> NoHeaders]
\* the task running the endpoint panics
Panicked ==
    [kind |-> "panic", status |-> 0, reason |-> "panic", headers |-> NoHeaders]
\* the ways the read of a body off the connection fails: the std::io::Error
\* that into_bytes() wraps in ReadBodyError::Io
IoErrors == {"connection reset", "unexpected end of file"}
\* Display of ReadBodyError::Io(e): "io: {e}"
IoDisplay(e) ==
    IF e = "connection reset" THEN "io: connection reset"
    ELSE "io: unexpected end of file"
\* into_bytes() failed with the I/O error e: ? converts the ReadBodyError
\* into a poem::Error of status 400
ReadBodyError(e) == Reject(400, IoDisplay(e))
\* into_bytes() returned the bytes of the body
Arrived == "ok"
\* what the await of the body ends with
ReadOutcomes == {Arrived} \cup IoErrors

\* ------------------------------------------------------------------------
\* bounds and input sets
\* ------------------------------------------------------------------------
\* the server clock's first reading (Unix seconds) and how far it advances
ClockStart == 1700000000
MaxTicks == 1
\* timestamps are taken up to MaxSkew seconds either side of the clock
MaxSkew == 2

\* "k2", "other_key"
ShortSecret == <<107, 50>>
OtherSecret == <<111, 116, 104, 101, 114, 95, 107, 101, 121>>
Secrets == {TestSecret, ShortSecret}
\* the window of test_check, in seconds
TestWindow == 20
Windows == {I64(0), I64(1), I64(TestWindow), I64Max}

Methods == {"GET", "POST"}
\* "/a", "/a?b", "/a?b?c"
Targets == {<<47, 97>>, <<47, 97, 63, 98>>, <<47, 97, 63, 98, 63, 99>>, TestTarget}
\* "", "é", and the byte 0xFF
Bodies == {<<>>, <<195, 169>>, <<255>>}

\* An optional header is <<>> (absent) or <<value>>.
Absent == <<>>
Present(v) == <<v>>

\* the text after the first '?', empty if there is none
RECURSIVE AfterFirst(_)
AfterFirst(s) ==
    IF s = <<>> THEN <<>>
    ELSE IF Head(s) = QuestionMark THEN Tail(s)
    ELSE AfterFirst(Tail(s))

HasQuery(t) == \E i \in 1..Len(t) : t[i] = QuestionMark

\* Known answers <<key, message, digest>> for the keys and signing strings
\* the clients below use; KnownDigestsExact, which Setup requires, states
\* that each is the digest HmacCompute yields.
HmacKnown == {
    \* "your_secret_key", "/a"
    <<TestSecret, <<47, 97>>,
      <<209, 142, 150, 151, 70, 105, 15, 134, 115, 33, 95, 190, 70, 37, 186,
        204, 130, 90, 189, 61, 52, 91, 44, 253, 122, 252, 131, 56, 136, 106,
        241, 248>> >>,
    \* "your_secret_key", "/a\xc3\xa9"
    <<TestSecret, <<47, 97, 195, 169>>,
      <<0, 69, 115, 110, 130, 254, 72, 116, 179, 0, 124, 207, 31, 24, 121,
        154, 247, 165, 225, 142, 163, 136, 233, 197, 165, 190, 87, 68, 46, 53,
        253, 162>> >>,
    \* "your_secret_key", "/a\xff"
    <<TestSecret, <<47, 97, 255>>,
      <<33, 194, 161, 252, 26, 68, 6, 157, 101, 253, 10, 215, 177, 51, 46, 45,
        176, 46, 246, 239, 153, 3, 190, 47, 38, 90, 155, 15, 31, 147, 122, 222>> >>,
    \* "your_secret_key", ""
    <<TestSecret, <<>>,
      <<199, 19, 12, 142, 253, 112, 45, 33, 126, 54, 169, 47, 185, 146, 194,
        195, 105, 43, 36, 229, 124, 139, 9, 119, 141, 212, 197, 62, 17, 251,
        137, 150>> >>,
    \* "your_secret_key", "\xc3\xa9"
    <<TestSecret, <<195, 169>>,
      <<148, 48, 53, 105, 238, 144, 38, 218, 254, 37, 229, 116, 130, 146, 213,
        167, 98, 3, 18, 231, 19, 244, 122, 124, 100, 30, 214, 176, 132, 101,
        129, 206>> >>,
    \* "your_secret_key", "\xff"
    <<TestSecret, <<255>>,
      <<25, 37, 100, 186, 56, 22, 126, 153, 242, 181, 25, 104, 43, 194, 164,
        100, 223, 124, 227, 3, 235, 232, 196, 190, 90, 179, 251, 160, 42, 85,
        18, 37>> >>,
    \* "your_secret_key", "b"
    <<TestSecret, <<98>>,
      <<118, 67, 78, 32, 24, 62, 183, 220, 14, 136, 152, 119, 165, 173, 189,
        0, 32, 82, 246, 154, 113, 227, 133, 59, 92, 89, 238, 175, 225, 101,
        146, 217>> >>,
    \* "your_secret_key", "b\xc3\xa9"
    <<TestSecret, <<98, 195, 169>>,
      <<52, 108, 78, 233, 15, 140, 142, 242, 235, 61, 113, 180, 157, 237, 19,
        148, 46, 88, 6, 104, 231, 103, 95, 106, 146, 161, 186, 96, 23, 179,
        119, 81>> >>,
    \* "your_secret_key", "b\xff"
    <<TestSecret, <<98, 255>>,
      <<3, 170, 109, 16, 102, 171, 150, 15, 130, 57, 117, 234, 206, 61, 196,
        142, 176, 142, 37, 139, 153, 96, 176, 255, 138, 78, 49, 238, 49, 82,
        154, 144>> >>,
    \* "your_secret_key", "/a?b"
    <<TestSecret, <<47, 97, 63, 98>>,
      <<80, 15, 145, 58, 244, 72, 215, 102, 123, 36, 209, 52, 146, 252, 179,
        127, 60, 248, 45, 28, 44, 226, 190, 149, 30, 59, 207, 87, 81, 184, 53,
        154>> >>,
    \* "your_secret_key", "/a?b\xc3\xa9"
    <<TestSecret, <<47, 97, 63, 98, 195, 169>>,
      <<58, 178, 11, 33, 134, 217, 108, 131, 168, 209, 255, 204, 138, 104,
        240, 114, 103, 126, 176, 33, 2, 246, 250, 16, 157, 117, 52, 62, 86, 2,
        14, 161>> >>,
    \* "your_secret_key", "/a?b\xff"
    <<TestSecret, <<47, 97, 63, 98, 255>>,
      <<184, 61, 99, 139, 116, 221, 137, 28, 139, 94, 125, 20, 92, 122, 210,
        81, 60, 107, 13, 167, 170, 62, 78, 93, 95, 193, 90, 92, 188, 147, 39,
        164>> >>,
    \* "your_secret_key", "c"
    <<TestSecret, <<99>>,
      <<6, 70, 105, 190, 227, 220, 246, 174, 248, 112, 193, 207, 123, 15, 124,
        133, 160, 35, 191, 82, 33, 236, 208, 81, 179, 207, 120, 110, 157, 254,
        89, 223>> >>,
    \* "your_secret_key", "c\xc3\xa9"
    <<TestSecret, <<99, 195, 169>>,
      <<81, 156, 132, 110, 48, 86, 18, 155, 100, 15, 32, 196, 205, 1, 229, 48,
        246, 18, 4, 40, 132, 223, 22, 6, 94, 128, 235, 168, 55, 91, 68, 94>> >>,
    \* "your_secret_key", "c\xff"
    <<TestSecret, <<99, 255>>,
      <<131, 67, 232, 218, 119, 60, 63, 161, 84, 183, 7, 26, 155, 8, 81, 159,
        173, 16, 187, 250, 221, 156, 242, 52, 98, 98, 110, 189, 156, 117, 48,
        206>> >>,
    \* "your_secret_key", "/a?b?c"
    <<TestSecret, <<47, 97, 63, 98, 63, 99>>,
      <<96, 247, 13, 245, 14, 169, 14, 153, 78, 122, 158, 221, 215, 199, 186,
        70, 64, 55, 245, 51, 182, 26, 233, 168, 229, 172, 253, 143, 222, 156,
        97, 22>> >>,
    \* "your_secret_key", "/a?b?c\xc3\xa9"
    <<TestSecret, <<47, 97, 63, 98, 63, 99, 195, 169>>,
      <<51, 38, 42, 150, 251, 96, 204, 146, 55, 4, 181, 241, 203, 56, 54, 166,
        211, 125, 157, 140, 109, 152, 143, 170, 139, 234, 214, 159, 108, 238,
        57, 48>> >>,
    \* "your_secret_key", "/a?b?c\xff"
    <<TestSecret, <<47, 97, 63, 98, 63, 99, 255>>,
      <<59, 213, 178, 69, 204, 5, 95, 112, 120, 118, 118, 222, 217, 222, 23,
        255, 24, 166, 43, 79, 13, 161, 104, 193, 44, 216, 206, 40, 101, 131,
        63, 78>> >>,
    \* "your_secret_key", "b?c"
    <<TestSecret, <<98, 63, 99>>,
      <<181, 9, 223, 176, 158, 40, 7, 27, 216, 247, 52, 65, 203, 120, 44, 88,
        253, 37, 228, 136, 161, 106, 162, 56, 136, 39, 104, 128, 107, 25, 203,
        112>> >>,
    \* "your_secret_key", "b?c\xc3\xa9"
    <<TestSecret, <<98, 63, 99, 195, 169>>,
      <<71, 55, 245, 131, 9, 145, 197, 192, 84, 149, 17, 197, 229, 238, 190,
        180, 65, 191, 217, 218, 176, 90, 218, 19, 255, 69, 117, 120, 2, 69,
        164, 136>> >>,
    \* "your_secret_key", "b?c\xff"
    <<TestSecret, <<98, 63, 99, 255>>,
      <<199, 166, 8, 84, 184, 112, 114, 237, 37, 210, 26, 240, 216, 109, 161,
        45, 217, 167, 222, 179, 46, 207, 125, 6, 115, 194, 103, 139, 219, 167,
        236, 131>> >>,
    <<TestSecret, TestQuery, TestQueryDigest>>,
    \* "your_secret_key", "address=init&linkType=0\xc3\xa9"
    <<TestSecret, TestQuery \o <<195, 169>>,
      <<173, 191, 151, 181, 231, 6, 173, 28, 254, 155, 136, 114, 152, 14, 94,
        98, 164, 114, 252, 130, 138, 139, 206, 208, 7, 10, 66, 154, 134, 67,
        98, 111>> >>,
    \* "your_secret_key", "address=init&linkType=0\xff"
    <<TestSecret, TestQuery \o <<255>>,
      <<207, 187, 35, 112, 63, 120, 14, 189, 100, 55, 225, 211, 247, 187, 103,
        142, 163, 221, 135, 86, 217, 101, 74, 253, 72, 133, 217, 15, 46, 82,
        231, 80>> >>,
    <<TestSecret, TestTarget, TestTargetDigest>>,
    \* "your_secret_key", "/api/available-code?address=init&linkType=0\xc3\xa9"
    <<TestSecret, TestTarget \o <<195, 169>>,
      <<239, 92, 115, 107, 168, 61, 196, 198, 25, 65, 99, 240, 62, 120, 18,
        208, 90, 110, 5, 45, 94, 178, 175, 243, 18, 54, 182, 29, 33, 42, 107,
        179>> >>,
    \* "your_secret_key", "/api/available-code?address=init&linkType=0\xff"
    <<TestSecret, TestTarget \o <<255>>,
      <<225, 180, 132, 65, 64, 170, 185, 199, 102, 206, 134, 208, 139, 203,
        142, 67, 1, 201, 69, 0, 151, 169, 254, 55, 66, 125, 118, 217, 227,
        180, 11, 133>> >>,
    \* "k2", "/a"
    <<ShortSecret, <<47, 97>>,
      <<164, 4, 29, 170, 167, 10, 225, 89, 56, 91, 232, 246, 248, 132, 250,
        193, 206, 182, 194, 129, 9, 106, 32, 3, 12, 9, 20, 241, 95, 50, 239,
        116>> >>,
    \* "k2", "/a\xc3\xa9"
    <<ShortSecret, <<47, 97, 195, 169>>,
      <<195, 66, 131, 105, 31, 248, 160, 58, 155, 191, 27, 179, 108, 44, 206,
        102, 108, 147, 251, 28, 198, 123, 164, 18, 52, 204, 178, 15, 139, 239,
        151, 25>> >>,
    \* "k2", "/a\xff"
    <<ShortSecret, <<47, 97, 255>>,
      <<216, 167, 64, 229, 68, 152, 72, 64, 248, 100, 179, 16, 240, 59, 108,
        222, 74, 57, 247, 114, 8, 34, 202, 208, 24, 242, 247, 96, 213, 72, 97,
        60>> >>,
    \* "k2", ""
    <<ShortSecret, <<>>,
      <<21, 141, 8, 6, 54, 219, 40, 195, 106, 219, 42, 188, 105, 148, 58, 176,
        145, 235, 90, 36, 225, 66, 106, 97, 32, 218, 249, 112, 157, 138, 209,
        125>> >>,
    \* "k2", "\xc3\xa9"
    <<ShortSecret, <<195, 169>>,
      <<236, 98, 116, 63, 156, 139, 111, 123, 221, 60, 169, 27, 25, 103, 72,
        144, 143, 78, 177, 191, 61, 228, 28, 24, 250, 164, 245, 33, 237, 229,
        76, 117>> >>,
    \* "k2", "\xff"
    <<ShortSecret, <<255>>,
      <<72, 229, 80, 170, 145, 43, 141, 53, 159, 184, 221, 213, 162, 34, 57,
        37, 57, 226, 91, 97, 65, 206, 56, 249, 152, 43, 11, 140, 85, 185, 110,
        212>> >>,
    \* "k2", "b"
    <<ShortSecret, <<98>>,
      <<222, 134, 139, 210, 42, 8, 161, 59, 140, 14, 250, 45, 86, 94, 231, 50,
        151, 208, 192, 246, 76, 94, 114, 44, 54, 116, 35, 170, 137, 61, 46, 13>> >>,
    \* "k2", "b\xc3\xa9"
    <<ShortSecret, <<98, 195, 169>>,
      <<18, 192, 21, 15, 146, 222, 251, 24, 17, 51, 150, 165, 51, 69, 169, 46,
        72, 40, 12, 64, 112, 161, 26, 115, 34, 103, 50, 198, 222, 56, 59, 39>> >>,
    \* "k2", "b\xff"
    <<ShortSecret, <<98, 255>>,
      <<235, 224, 107, 173, 29, 199, 35, 14, 65, 152, 154, 226, 42, 169, 29,
        213, 36, 110, 37, 235, 175, 213, 16, 52, 160, 174, 191, 109, 43, 80,
        145, 237>> >>,
    \* "k2", "/a?b"
    <<ShortSecret, <<47, 97, 63, 98>>,
      <<42, 151, 88, 254, 231, 159, 169, 88, 64, 71, 143, 191, 190, 10, 70,
        91, 160, 71, 179, 132, 248, 123, 73, 39, 98, 77, 56, 251, 100, 175,
        155, 243>> >>,
    \* "k2", "/a?b\xc3\xa9"
    <<ShortSecret, <<47, 97, 63, 98, 195, 169>>,
      <<125, 164, 188, 241, 80, 157, 112, 127, 41, 147, 91, 98, 16, 13, 12,
        187, 172, 50, 49, 175, 208, 26, 69, 32, 11, 196, 217, 205, 198, 245,
        67, 183>> >>,
    \* "k2", "/a?b\xff"
    <<ShortSecret, <<47, 97, 63, 98, 255>>,
      <<99, 68, 215, 113, 101, 47, 19, 224, 189, 165, 126, 242, 124, 148, 255,
        91, 174, 183, 82, 108, 28, 100, 201, 106, 226, 186, 74, 33, 170, 19,
        136, 204>> >>,
    \* "k2", "c"
    <<ShortSecret, <<99>>,
      <<235, 237, 85, 189, 10, 59, 21, 123, 187, 220, 49, 4, 204, 221, 124,
        244, 130, 86, 236, 77, 40, 122, 205, 225, 122, 149, 174, 123, 131,
        131, 90, 27>> >>,
    \* "k2", "c\xc3\xa9"
    <<ShortSecret, <<99, 195, 169>>,
      <<160, 203, 115, 183, 19, 194, 94, 53, 159, 253, 82, 67, 10, 196, 73,
        242, 208, 39, 85, 8, 247, 204, 66, 237, 158, 73, 110, 175, 142, 172,
        71, 180>> >>,
    \* "k2", "c\xff"
    <<ShortSecret, <<99, 255>>,
      <<99, 95, 170, 70, 223, 80, 30, 252, 69, 205, 168, 190, 219, 217, 60,
        55, 208, 174, 36, 246, 169, 27, 36, 246, 54, 147, 42, 82, 154, 94, 32,
        142>> >>,
    \* "k2", "/a?b?c"
    <<ShortSecret, <<47, 97, 63, 98, 63, 99>>,
      <<194, 77, 231, 238, 109, 89, 155, 7, 162, 220, 23, 245, 166, 181, 185,
        6, 183, 25, 146, 165, 33, 16, 165, 218, 80, 218, 100, 134, 200, 59,
        13, 98>> >>,
    \* "k2", "/a?b?c\xc3\xa9"
    <<ShortSecret, <<47, 97, 63, 98, 63, 99, 195, 169>>,
      <<125, 10, 186, 96, 187, 92, 254, 131, 108, 49, 128, 104, 229, 251, 222,
        150, 39, 38, 15, 1, 191, 173, 44, 59, 102, 1, 25, 241, 165, 37, 92, 39>> >>,
    \* "k2", "/a?b?c\xff"
    <<ShortSecret, <<47, 97, 63, 98, 63, 99, 255>>,
      <<114, 167, 31, 252, 25, 89, 142, 145, 61, 179, 252, 204, 162, 33, 175,
        62, 224, 138, 182, 236, 233, 129, 121, 169, 50, 225, 71, 144, 53, 82,
        160, 12>> >>,
    \* "k2", "b?c"
    <<ShortSecret, <<98, 63, 99>>,
      <<224, 124, 86, 58, 197, 62, 186, 153, 123, 126, 17, 131, 252, 15, 179,
        47, 135, 155, 149, 115, 156, 46, 212, 26, 159, 94, 57, 225, 222, 0,
        250, 123>> >>,
    \* "k2", "b?c\xc3\xa9"
    <<ShortSecret, <<98, 63, 99, 195, 169>>,
      <<93, 150, 31, 226, 30, 126, 67, 215, 48, 73, 28, 105, 97, 10, 211, 206,
        45, 198, 128, 231, 253, 84, 212, 206, 147, 70, 72, 160, 178, 190, 154,
        77>> >>,
    \* "k2", "b?c\xff"
    <<ShortSecret, <<98, 63, 99, 255>>,
      <<200, 101, 190, 79, 154, 157, 54, 144, 97, 88, 219, 74, 204, 250, 37,
        205, 216, 144, 213, 219, 10, 119, 220, 67, 190, 245, 175, 97, 165, 96,
        144, 176>> >>,
    \* "k2", "address=init&linkType=0"
    <<ShortSecret, TestQuery,
      <<245, 254, 53, 33, 13, 243, 76, 207, 50, 85, 170, 81, 69, 144, 149, 91,
        104, 152, 60, 14, 254, 25, 166, 109, 166, 103, 110, 54, 21, 49, 197,
        143>> >>,
    \* "k2", "address=init&linkType=0\xc3\xa9"
    <<ShortSecret, TestQuery \o <<195, 169>>,
      <<153, 227, 80, 212, 109, 164, 107, 159, 206, 114, 46, 191, 107, 236,
        160, 160, 122, 92, 120, 30, 8, 64, 215, 121, 79, 232, 47, 211, 219,
        109, 126, 172>> >>,
    \* "k2", "address=init&linkType=0\xff"
    <<ShortSecret, TestQuery \o <<255>>,
      <<14, 123, 176, 39, 243, 80, 225, 195, 57, 30, 221, 226, 133, 190, 45,
        77, 29, 253, 160, 89, 151, 155, 211, 235, 235, 162, 195, 0, 11, 188,
        0, 8>> >>,
    \* "k2", "/api/available-code?address=init&linkType=0"
    <<ShortSecret, TestTarget,
      <<240, 132, 40, 56, 95, 91, 26, 112, 177, 191, 23, 100, 226, 24, 178,
        239, 61, 33, 237, 249, 162, 168, 29, 92, 139, 61, 60, 57, 141, 78,
        124, 248>> >>,
    \* "k2", "/api/available-code?address=init&linkType=0\xc3\xa9"
    <<ShortSecret, TestTarget \o <<195, 169>>,
      <<69, 179, 10, 229, 101, 181, 44, 66, 97, 245, 91, 225, 36, 170, 134,
        170, 45, 220, 55, 232, 69, 123, 214, 37, 44, 137, 109, 105, 45, 120,
        238, 247>> >>,
    \* "k2", "/api/available-code?address=init&linkType=0\xff"
    <<ShortSecret, TestTarget \o <<255>>,
      <<197, 243, 74, 5, 45, 65, 49, 233, 122, 163, 163, 202, 184, 152, 232,
        172, 100, 107, 65, 73, 108, 224, 181, 39, 185, 203, 199, 157, 222, 34,
        154, 189>> >>,
    \* "other_key", "b"
    <<OtherSecret, <<98>>,
      <<219, 245, 232, 163, 161, 10, 67, 8, 149, 2, 75, 150, 142, 74, 183, 81,
        232, 28, 137, 162, 184, 228, 107, 78, 135, 152, 44, 61, 243, 100, 156,
        248>> >>,
    \* "other_key", "b\xc3\xa9"
    <<OtherSecret, <<98, 195, 169>>,
      <<206, 104, 86, 74, 9, 186, 145, 145, 212, 168, 255, 253, 239, 3, 126,
        182, 2, 135, 236, 169, 13, 138, 108, 22, 103, 134, 159, 246, 119, 132,
        40, 149>> >> }

KnownDigestsExact == \A e \in HmacKnown : HmacCompute(e[1], e[2]) = e[3]

\* Hmac<Sha256>: new_from_slice(key), update(msg), finalize()
HmacSha256(key, msg) ==
    LET known == {e \in HmacKnown : e[1] = key /\ e[2] = msg}
    IN  IF known = {} THEN HmacCompute(key, msg)
        ELSE (CHOOSE e \in known : TRUE)[3]

\* ------------------------------------------------------------------------
\* state
\* ------------------------------------------------------------------------
VARIABLES
    secret_key,           \* SignVerifyEndpoint.secret_key
    allowed_time_window,  \* SignVerifyEndpoint.allowed_time_window
    overflow_checks,      \* whether the build checks integer overflow
    clock,                \* the server clock, Unix seconds
    calls,                \* the calls of the endpoint in progress, by client
    captured              \* <<>> or <<the first accepted request, with its time>>

vars == <<secret_key, allowed_time_window, overflow_checks, clock, calls, captured>>
config == <<secret_key, allowed_time_window, overflow_checks>>

\* Two clients' calls run through the endpoint at once.
Calls == {"A", "B"}

\* A call: where it stands (pc), the endpoint it runs (ep), the request as
\* the client sent it (req), the request object the call holds (held, the
\* `mut req` of call), the body taken out of it and being read (taken), the
\* clock reading the call took (now), whether the body was read, the
\* request given to the wrapped endpoint (fwd), what the wrapped endpoint
\* returned (down) and what the call returned (result).  An optional value
\* is <<>> or <<value>>.
\*   pc = "reading": suspended in take_body().into_bytes().await
\*   pc = "calling": suspended in self.ep.call(req).await
Idle ==
    [pc |-> "idle", ep |-> "none", req |-> <<>>, held |-> <<>>, taken |-> <<>>,
     now |-> <<>>, read |-> "no", fwd |-> <<>>, down |-> <<>>, result |-> <<>>]

\* ------------------------------------------------------------------------
\* SignVerifyEndpoint
\* ------------------------------------------------------------------------
\* the whole request target signed, the path included
string_to_sign_whole_target(r, body) ==
    r.target \o (IF r.method # "GET" THEN body ELSE <<>>)

\* string_to_sign: the last '?'-separated piece of the uri of r, followed by
\* the text of the body read unless the method is GET
string_to_sign(r, body) ==
    LastSegment(r.target) \o (IF r.method # "GET" THEN body ELSE <<>>)

\* req.take_body(): the body leaves the request, which keeps an empty one
TakeBody(r) == [request |-> [r EXCEPT !.body = <<>>], body |-> r.body]

\* SignVerifyEndpoint::call(r) up to the await of the body, the clock
\* reading t: whether the call goes on, the clock reading it took if it got
\* that far, and otherwise what it returns.
VerifyHeaders(r, t) ==
    LET Early(e) == [pass |-> FALSE, now |-> <<>>, error |-> <<e>>]
        Late(e)  == [pass |-> FALSE, now |-> <<t>>, error |-> <<e>>]
    IN
    IF r.apiSig = Absent THEN Early(Reject(400, "missing header apiSig"))
    ELSE IF r.timestamp = Absent THEN Early(Reject(400, "missing header timestamp"))
    ELSE
    LET timestamp == ParseI64(r.timestamp[1]) IN
    IF ~timestamp.ok THEN Early(Reject(400, "timestamp parse error"))
    ELSE
    LET diff == I64Sub(timestamp.val, I64(t), overflow_checks) IN
    IF diff.panic THEN Late(Panicked)
    ELSE
    LET dist == I64Abs(diff.val, overflow_checks) IN
    IF dist.panic THEN Late(Panicked)
    ELSE IF SignedLess(allowed_time_window, dist.val)
        THEN Late(Reject(401, "request timeout"))
    ELSE [pass |-> TRUE, now |-> <<t>>, error |-> <<>>]

\* SignVerifyEndpoint::call from the bytes read, body, to the call of the
\* wrapped endpoint, r being the request held: whether r is passed on, and
\* otherwise what call returns.
VerifyBody(r, body) ==
    LET Stop(e) == [pass |-> FALSE, error |-> <<e>>]
    IN
    IF ~IsUtf8(body) THEN Stop(Reject(400, "body parse error"))
    ELSE
    LET sign_decode == Base64Decode(r.apiSig[1]) IN
    IF ~sign_decode.ok THEN Stop(Panicked)
    ELSE IF ~VerifySlice(HmacSha256(secret_key, string_to_sign(r, body)), sign_decode.bytes)
        THEN Stop(Reject(401, "api signature verify error"))
    ELSE [pass |-> TRUE, error |-> <<>>]

\* the request held left as take_body() made it, the body never put back
SetBodyOmitted(r, body) == r

\* req.set_body(body): the request held gets the bytes read as its body
SetBody(r, body) == [r EXCEPT !.body = body]

\* ------------------------------------------------------------------------
\* the wrapped endpoint's possible answers
\* ------------------------------------------------------------------------
Respond(status, headers) ==
    [kind |-> "ok", status |-> status, reason |-> "", headers |-> headers]

CacheControlValue == "no-store, no-cache, must-revalidate, max-age=0"
ExpiresValue == "0"
PragmaValue == "no-cache"

\* what the wrapped endpoint may have put in one header
ValuesOf(h) ==
    IF h = "cache-control" THEN {<<>>, <<"public, max-age=3600">>,
                                 <<CacheControlValue>>, <<"private", "max-age=60">>}
    ELSE IF h = "expires" THEN {<<>>, <<"Thu, 01 Jan 2099 00:00:00 GMT">>,
                                <<ExpiresValue>>, <<"1", "2">>}
    ELSE IF h = "pragma" THEN {<<>>, <<"cache">>, <<PragmaValue>>}
    ELSE {<<>>, <<"text/plain; charset=utf-8">>}

HeaderMaps == {h \in [HeaderNames -> UNION {ValuesOf(n) : n \in HeaderNames}] :
                  \A n \in HeaderNames : h[n] \in ValuesOf(n)}

\* make_sync(|_| "hello")
Hello == Respond(200, [NoHeaders EXCEPT !["content-type"] = <<"text/plain; charset=utf-8">>])

SignDownstream == {Hello, Respond(404, NoHeaders), Reject(500, "handler error")}
NoCacheDownstream ==
    {Respond(st, h) : st \in {200, 404}, h \in HeaderMaps} \cup {Reject(500, "handler error")}

\* what the handler behind a client's call may answer: anything for client
\* A, "hello" for client B
SignAnswers(c) == IF c = "A" THEN SignDownstream ELSE {Hello}
NoCacheAnswers(c) == IF c = "A" THEN NoCacheDownstream ELSE {Hello}

\* ------------------------------------------------------------------------
\* NoCacheEndpoint
\* ------------------------------------------------------------------------
\* HeaderMap::append(name, value): value is added to the values name has
AppendHeader(h, name, v) == [h EXCEPT ![name] = @ \o <<v>>]

\* HeaderMap::insert(name, value): value replaces every value name had
InsertHeader(h, name, v) == [h EXCEPT ![name] = <<v>>]

\* NoCacheEndpoint::call once the wrapped endpoint has returned d: an error
\* is returned as it is, a response gets the three headers
NoCache(d) ==
    IF d.kind = "err" THEN d
    ELSE [d EXCEPT !.headers =
            InsertHeader(
                InsertHeader(
                    InsertHeader(@, "cache-control", CacheControlValue),
                    "expires", ExpiresValue),
                "pragma", PragmaValue)]

\* ------------------------------------------------------------------------
\* the clients' requests
\* ------------------------------------------------------------------------
Request(m, t, sig, ts, b) ==
    [method |-> m, target |-> t, apiSig |-> sig, timestamp |-> ts, body |-> b]

\* the signature a client holding key k sends for the signing string m
Sign(k, m) == Base64Encode(HmacSha256(k, m))

\* the timestamp header of a client whose clock reads t
Stamp(t) == Present(I64ToString(I64(t)))

\* the digest with bit i (0 is the lowest bit of the first byte) flipped
FlipBit(digest, i) ==
    LET j == i \div 8 + 1
        w == 2 ^ (i % 8)
    IN  [digest EXCEPT ![j] = IF (@ \div w) % 2 = 1 THEN @ - w ELSE @ + w]

BodyPart(m, b) == IF m # "GET" THEN b ELSE <<>>

\* "/a?b", "b", "é", "!!!!"
ShortTarget == <<47, 97, 63, 98>>
ShortQuery == <<98>>
Accented == <<195, 169>>
NotBase64 == <<33, 33, 33, 33>>

\* the request of test_check, signed with the endpoint's key
TestCheck ==
    Request("GET", TestTarget, Present(Sign(secret_key, TestQuery)), Stamp(clock), <<>>)

\* the apiSig headers of a client that signs the piece after the last '?',
\* the whole target, or the piece after the first '?'
CanonSigs(m, t, b) ==
    {Present(Sign(secret_key, s \o BodyPart(m, b))) :
        s \in {LastSegment(t), t, AfterFirst(t)}}

\* requests lacking a header or carrying an unusual timestamp ("12x", the
\* clock's reading after a '+', twenty nines), their apiSig being sig
MalformedRequests(sig) ==
        { Request("GET", ShortTarget, Absent, Stamp(clock), <<>>),
          Request("GET", ShortTarget, sig, Absent, <<>>),
          Request("GET", ShortTarget, sig, Present(<<49, 50, 120>>), <<>>),
          Request("GET", ShortTarget, sig, Present(<<PlusSign>> \o I64ToString(I64(clock))), <<>>),
          Request("GET", ShortTarget, sig, Present([i \in 1..20 |-> 57]), <<>>) }

\* the apiSig headers of a forger who has the right digest and one made
\* with another key: the right one, the other, the first half of the right
\* digest, nothing, the right one without its padding, and text outside the
\* Base64 alphabet
ForgedSigs(digest, other) ==
    LET good == Base64Encode(digest)
    IN  { Present(good),
          Present(Base64Encode(other)),
          Present(Base64Encode(SubSeq(digest, 1, DigestLen \div 2))),
          Present(<<>>),
          Present(SubSeq(good, 1, Len(good) - 1)),
          Present(NotBase64) }

\* the apiSig headers made of digest with one of its bits flipped
FlippedSigs(digest) ==
    {Present(Base64Encode(FlipBit(digest, i))) : i \in 0..(8 * DigestLen - 1)}

\* the timestamps of interest around the clock and at the ends of the range
TimestampValues ==
    {I64(clock + k) : k \in (0 - MaxSkew)..MaxSkew}
        \cup {I64Min, I64Max,
              AddLimbs(I64Min, I64(clock), 0),
              AddLimbs(I64Min, I64(clock + 1), 0)}

\* the decimal text of each timestamp value
TimestampHeaders == {Present(I64ToString(v)) : v \in TimestampValues}

\* ------------------------------------------------------------------------
\* actions
\* ------------------------------------------------------------------------
\* SignVerifyMiddleware::new(secret, allowed_time) and transform(ep), for a
\* secret of keys and a window of windows
Setup(keys, windows) ==
    /\ KnownDigestsExact
    /\ secret_key \in keys
    /\ allowed_time_window \in windows
    /\ overflow_checks \in BOOLEAN
    /\ clock = ClockStart
    /\ calls = [c \in Calls |-> Idle]
    /\ captured = <<>>

\* SignVerifyEndpoint::call(r) for client c, from its start to the await of
\* the body: the header checks, the clock reading, the window check and
\* take_body()
SignVerifyStart(c, r) ==
    /\ calls[c].pc = "idle"
    /\ LET a == VerifyHeaders(r, clock)
       IN  calls' = [calls EXCEPT ![c] =
                [Idle EXCEPT !.pc = IF a.pass THEN "reading" ELSE "done",
                             !.ep = "sign",
                             !.req = <<r>>,
                             !.held = IF a.pass THEN <<TakeBody(r).request>> ELSE <<>>,
                             !.taken = IF a.pass THEN <<TakeBody(r).body>> ELSE <<>>,
                             !.now = a.now,
                             !.result = a.error]]
    /\ UNCHANGED <<config, clock>>

\* the call after lines 92-120, a being what VerifyBody found: the bytes
\* read set as the body of the request held and the request moved into the
\* call of the wrapped endpoint, or call returned with the error
Verified(call, a) ==
    IF a.pass
    THEN [call EXCEPT !.pc = "calling", !.read = "ok",
                      !.held = <<>>, !.taken = <<>>,
                      !.fwd = <<SetBody(call.held[1], call.taken[1])>>]
    ELSE [call EXCEPT !.pc = "done", !.read = "ok", !.held = <<>>, !.taken = <<>>,
                      !.result = a.error]

\* the call of client c resumes after the await of the body: the read has
\* failed and call returns the error by ?, or the bytes have arrived and
\* call runs on to the await of the wrapped endpoint
Resumed(c, read) ==
    /\ calls[c].pc = "reading"
    /\ calls' = [calls EXCEPT ![c] =
            IF read = Arrived THEN Verified(@, VerifyBody(@.held[1], @.taken[1]))
            ELSE [@ EXCEPT !.pc = "done", !.read = "failed",
                           !.held = <<>>, !.taken = <<>>,
                           !.result = <<ReadBodyError(read)>>]]
    /\ UNCHANGED <<config, clock>>

SignVerifyBody(c, read) == Resumed(c, read) /\ UNCHANGED captured

\* the wrapped endpoint answers d: call returns it, an error by ?, a
\* response by into_response()
SignVerifyReturn(c, d) ==
    /\ calls[c].pc = "calling"
    /\ calls[c].ep = "sign"
    /\ calls' = [calls EXCEPT ![c] =
            [@ EXCEPT !.pc = "done", !.down = <<d>>, !.result = <<d>>]]
    /\ UNCHANGED <<config, clock, captured>>

\* NoCacheEndpoint::call(r) for client c up to the await of the wrapped
\* endpoint
NoCacheStart(c, r) ==
    /\ calls[c].pc = "idle"
    /\ calls' = [calls EXCEPT ![c] =
            [Idle EXCEPT !.pc = "calling", !.ep = "nocache",
                         !.req = <<r>>, !.fwd = <<r>>]]
    /\ UNCHANGED <<config, clock, captured>>

\* the wrapped endpoint answers d: an error is returned by ?, a response
\* gets the three headers
NoCacheReturn(c, d) ==
    /\ calls[c].pc = "calling"
    /\ calls[c].ep = "nocache"
    /\ calls' = [calls EXCEPT ![c] =
            [@ EXCEPT !.pc = "done", !.down = <<d>>, !.result = <<NoCache(d)>>]]
    /\ UNCHANGED <<config, clock, captured>>

\* the outcome of client c's call has been written; c may call again
Deliver(c) ==
    /\ calls[c].pc = "done"
    /\ calls' = [calls EXCEPT ![c] = Idle]
    /\ UNCHANGED <<config, clock, captured>>

\* a second passes on the server clock
Tick ==
    /\ clock < ClockStart + MaxTicks
    /\ clock' = clock + 1
    /\ UNCHANGED <<config, calls, captured>>

\* client B sends the request of test_check
CallBackground == SignVerifyStart("B", TestCheck) /\ UNCHANGED captured

\* a suspended call of the authenticator goes on, a finished one is delivered
Resume ==
    \/ \E c \in Calls, read \in ReadOutcomes : SignVerifyBody(c, read)
    \/ \E c \in Calls : \E d \in SignAnswers(c) : SignVerifyReturn(c, d)
    \/ \E c \in Calls : Deliver(c)

\* ---- signing strings ----
Init == Setup(Secrets, {I64(1)})

\* client A sends a request signed in one of the three ways
Call ==
    /\ calls["A"].pc = "idle"
    /\ \E m \in Methods, t \in Targets, b \in Bodies :
        \E sig \in CanonSigs(m, t, b) :
            SignVerifyStart("A", Request(m, t, sig, Stamp(clock), b))
    /\ UNCHANGED captured

CallMalformed ==
    /\ calls["A"].pc = "idle"
    /\ \E r \in MalformedRequests(Present(Sign(secret_key, ShortQuery))) :
            SignVerifyStart("A", r)
    /\ UNCHANGED captured

Next == Call \/ CallMalformed \/ CallBackground \/ Resume \/ Tick

Spec == Init /\ [][Next]_vars

\* ---- forged signatures ----
InitForge == Setup({TestSecret}, {I64(1)})

\* client A sends "/a?b" with the body "é" and a forger's apiSig
CallForged ==
    /\ calls["A"].pc = "idle"
    /\ \E m \in Methods :
        \E sig \in ForgedSigs(HmacSha256(secret_key, ShortQuery \o BodyPart(m, Accented)),
                               HmacSha256(OtherSecret, ShortQuery \o BodyPart(m, Accented))) :
            SignVerifyStart("A", Request(m, ShortTarget, sig, Stamp(clock), Accented))
    /\ UNCHANGED captured

\* client A sends a correctly signed POST with one bit of the digest flipped
CallFlipped ==
    /\ calls["A"].pc = "idle"
    /\ \E sig \in FlippedSigs(HmacSha256(secret_key, ShortQuery \o Accented)) :
            SignVerifyStart("A", Request("POST", ShortTarget, sig, Stamp(clock), Accented))
    /\ UNCHANGED captured

NextForge == CallForged \/ CallFlipped \/ CallBackground \/ Resume \/ Tick

SpecForge == InitForge /\ [][NextForge]_vars

\* ---- the time window ----
InitWindow == Setup({TestSecret}, Windows)

\* client A sends GET /a?b under each timestamp, signed with the endpoint's
\* key or with another
CallStamped ==
    /\ calls["A"].pc = "idle"
    /\ \E k \in {secret_key, OtherSecret}, ts \in TimestampHeaders :
            SignVerifyStart("A",
                Request("GET", ShortTarget, Present(Sign(k, ShortQuery)), ts, <<>>))
    /\ UNCHANGED captured

NextWindow == CallStamped \/ CallBackground \/ Resume \/ Tick

SpecWindow == InitWindow /\ [][NextWindow]_vars

\* ---- replay: an eavesdropper keeps the first request the authenticator
\* accepts, with the clock reading of its call ----
InitReplay == Setup({TestSecret}, {I64(0), I64(1)})

\* a client sends POST /a?b with the body "é", correctly signed, stamped
\* with its own clock, which is up to a second off the server's
CallReplayable ==
    \E c \in Calls, k \in {0 - 1, 0, 1} :
        /\ SignVerifyStart(c,
                Request("POST", ShortTarget, Present(Sign(secret_key, ShortQuery \o Accented)),
                        Stamp(clock + k), Accented))
        /\ UNCHANGED captured

Observed(c, read) ==
    /\ Resumed(c, read)
    /\ captured' = IF captured = <<>> /\ calls'[c].pc = "calling"
                   THEN <<[request |-> calls[c].req[1], at |-> calls[c].now[1]]>>
                   ELSE captured

NextReplay ==
    \/ CallReplayable
    \/ \E c \in Calls, read \in ReadOutcomes : Observed(c, read)
    \/ \E c \in Calls : SignVerifyReturn(c, Hello)
    \/ \E c \in Calls : Deliver(c)
    \/ Tick

SpecReplay == InitReplay /\ [][NextReplay]_vars

\* ---- the no-cache filter ----
InitNoCache == Setup({TestSecret}, {I64(1)})

\* a client sends GET / through the no-cache filter
CallNoCache ==
    \E c \in Calls : NoCacheStart(c, Request("GET", <<47>>, Absent, Absent, <<>>))

NextNoCache ==
    \/ CallNoCache
    \/ \E c \in Calls : \E d \in NoCacheAnswers(c) : NoCacheReturn(c, d)
    \/ \E c \in Calls : Deliver(c)
    \/ Tick

SpecNoCache == InitNoCache /\ [][NextNoCache]_vars

\* ------------------------------------------------------------------------
\* vocabulary of the properties, for the call of client c
\* ------------------------------------------------------------------------
Signed(c) == calls[c].ep = "sign"
ReqOf(c) == calls[c].req[1]
\* the bytes of the body arrived: into_bytes() returned Ok
BodyRead(c) == calls[c].read = "ok"
\* the request was handed to the wrapped endpoint
Accepted(c) == Signed(c) /\ calls[c].fwd # <<>>
\* call returned the authenticator's own error with this status and reason
RejectedWith(c, status, reason) ==
    /\ Signed(c)
    /\ calls[c].pc = "done"
    /\ calls[c].fwd = <<>>
    /\ calls[c].down = <<>>
    /\ calls[c].result = <<Reject(status, reason)>>
\* call returned the authenticator's own error with status 401
Rejected401(c) ==
    /\ Signed(c)
    /\ calls[c].pc = "done"
    /\ calls[c].fwd = <<>>
    /\ calls[c].down = <<>>
    /\ calls[c].result[1].kind = "err"
    /\ calls[c].result[1].status = 401
\* the timestamp header parsed and the call took its clock reading
HasTimestamp(c) == Signed(c) /\ calls[c].now # <<>>
TimestampOf(c) == ParseI64(ReqOf(c).timestamp[1]).val
\* the clock reading the call took for its window check
NowOf(c) == calls[c].now[1]
\* |timestamp - now| <= allowed_time_window over the integers
InWindow(c) ==
    HasTimestamp(c) /\ ~ExactlyOutOfWindow(TimestampOf(c), I64(NowOf(c)), allowed_time_window)
\* timestamp - now = k over the integers, k a wide number
OffsetIs(c, k) ==
    HasTimestamp(c) /\ SubLimbs(Wide(TimestampOf(c)), Wide(I64(NowOf(c)))) = k
WideWindow == Wide(allowed_time_window)
WideOne == <<1>> \o Zeros(WideLimbs - 1)
\* the signing string of the code: the text after the last '?', then the
\* body unless the method is GET
ExpectedString(r) == LastSegment(r.target) \o BodyPart(r.method, r.body)
\* the other client's call is suspended, or the clock has moved on since the
\* call's own reading
Overlapped(c) ==
    \/ \E o \in Calls \ {c} : calls[o].pc \in {"reading", "calling"}
    \/ (calls[c].now # <<>> /\ clock > NowOf(c))

\* ------------------------------------------------------------------------
\* properties
\* ------------------------------------------------------------------------

\* C1: a request with an apiSig header, an in-window integer timestamp and a
\* UTF-8 body that was read, whose apiSig is not valid padded Base64, is
\* answered with the error value 400 "base64 decode signature error";
\* nothing panics and the wrapped endpoint is not called.
C1_DecodeFailureIs400 ==
    \A c \in Calls :
        (/\ Signed(c)
         /\ BodyRead(c)
         /\ InWindow(c)
         /\ IsUtf8(ReqOf(c).body)
         /\ ~Base64Valid(ReqOf(c).apiSig[1]))
            => RejectedWith(c, 400, "base64 decode signature error")

\* C2: once a request carrying a signature was accepted by a call that read
\* the clock at t, no request carrying the same signature, method, target
\* and body is accepted by a call that reads the clock later than
\* t + 2 * allowed_time_window.
C2_ReplayBounded ==
    \A c \in Calls :
        (/\ Accepted(c)
         /\ captured # <<>>
         /\ ReqOf(c).apiSig = captured[1].request.apiSig
         /\ ReqOf(c).method = captured[1].request.method
         /\ ReqOf(c).target = captured[1].request.target
         /\ ReqOf(c).body = captured[1].request.body)
            => ~SignedLess(MulSmall(WideWindow, 2, 0), Wide(I64(NowOf(c) - captured[1].at)))

\* C3: with allowed_time_window W >= 0 and now the clock reading of the
\* call, a correctly signed request whose timestamp is now - W or now + W
\* (its body read) is accepted, and a request whose timestamp is now - W - 1
\* or now + W + 1 is rejected with status 401 whatever its signature.
C3_WindowSymmetricInclusive ==
    \A c \in Calls :
        (Signed(c) /\ ~IsNegative(allowed_time_window) /\ ReqOf(c).apiSig # Absent)
            => /\ (/\ OffsetIs(c, WideWindow) \/ OffsetIs(c, NegLimbs(WideWindow))
                   /\ BodyRead(c)
                   /\ IsUtf8(ReqOf(c).body)
                   /\ ReqOf(c).apiSig = Present(Sign(secret_key, ExpectedString(ReqOf(c)))))
                      => Accepted(c)
               /\ (\/ OffsetIs(c, AddLimbs(WideWindow, WideOne, 0))
                   \/ OffsetIs(c, NegLimbs(AddLimbs(WideWindow, WideOne, 0))))
                      => Rejected401(c)

\* C4 as stated: a non-GET request with a UTF-8 body (read in full) and an
\* in-window timestamp whose apiSig is Base64(HMAC(secret, target \o body)),
\* the target being path and query as transmitted, is accepted.
C4_SignsWholeTarget ==
    \A c \in Calls :
        (/\ Signed(c)
         /\ BodyRead(c)
         /\ ReqOf(c).method # "GET"
         /\ InWindow(c)
         /\ IsUtf8(ReqOf(c).body)
         /\ ReqOf(c).apiSig = Present(Sign(secret_key, ReqOf(c).target \o ReqOf(c).body)))
            => Accepted(c)

\* C4 amended: a non-GET request with a UTF-8 body (read in full) and an
\* in-window timestamp whose apiSig is Base64(HMAC(secret, q \o body)), q
\* being the text after the last '?' of the target (the whole target when it
\* has no '?'), is accepted.
C4_SignsLastSegment ==
    \A c \in Calls :
        (/\ Signed(c)
         /\ BodyRead(c)
         /\ ReqOf(c).method # "GET"
         /\ InWindow(c)
         /\ IsUtf8(ReqOf(c).body)
         /\ ReqOf(c).apiSig =
                Present(Sign(secret_key, LastSegment(ReqOf(c).target) \o ReqOf(c).body)))
            => Accepted(c)

\* a POST with a query and a body, signed over query and body, was accepted
\* while the other client's call was suspended or the clock had moved on
C4_Witness ==
    /\ Accepted("A")
    /\ Overlapped("A")
    /\ ReqOf("A").method = "POST"
    /\ HasQuery(ReqOf("A").target)
    /\ ReqOf("A").body # <<>>
    /\ InWindow("A")
    /\ ReqOf("A").apiSig =
            Present(Sign(secret_key, LastSegment(ReqOf("A").target) \o ReqOf("A").body))

\* C5: a GET request whose target is path?query, signed over the query (the
\* text after the '?') and carrying an in-window timestamp, its body read,
\* is accepted, and the wrapped endpoint's response is what call returns
\* (status 200 for the handler of the test).
C5_GetSignsQuery ==
    \A c \in Calls :
        (/\ Signed(c)
         /\ BodyRead(c)
         /\ ReqOf(c).method = "GET"
         /\ HasQuery(ReqOf(c).target)
         /\ InWindow(c)
         /\ ReqOf(c).apiSig = Present(Sign(secret_key, AfterFirst(ReqOf(c).target))))
            => /\ Accepted(c)
               /\ calls[c].pc = "done"
                    => /\ calls[c].result = calls[c].down
                       /\ calls[c].down[1] = Hello => calls[c].result[1].status = 200

\* C6: the wrapped endpoint is called only for a request whose decoded apiSig
\* equals HMAC(secret, signing string); a request that passes the header,
\* window, body and Base64 steps with any other signature is rejected with
\* 401 "api signature verify error".
C6_NoForgedSignature ==
    \A c \in Calls :
        /\ Accepted(c)
            => /\ ReqOf(c).apiSig # Absent
               /\ Base64Decode(ReqOf(c).apiSig[1]) =
                    [ok |-> TRUE, bytes |-> HmacSha256(secret_key, ExpectedString(ReqOf(c)))]
        /\ (/\ Signed(c)
            /\ BodyRead(c)
            /\ InWindow(c)
            /\ IsUtf8(ReqOf(c).body)
            /\ Base64Valid(ReqOf(c).apiSig[1])
            /\ Base64DecodeQuads(ReqOf(c).apiSig[1])
                    # HmacSha256(secret_key, ExpectedString(ReqOf(c))))
               => RejectedWith(c, 401, "api signature verify error")

\* a correct digest with one bit flipped has been rejected
C6_Witness ==
    /\ RejectedWith("A", 401, "api signature verify error")
    /\ BodyRead("A")
    /\ InWindow("A")
    /\ \E i \in 0..(8 * DigestLen - 1) :
        ReqOf("A").apiSig = Present(Base64Encode(
            FlipBit(HmacSha256(secret_key, ExpectedString(ReqOf("A"))), i)))

\* C7: a GET request signed without the body and carrying an in-window
\* timestamp is accepted whatever the bytes of its body, once read, are.
C7_GetBodyIgnored ==
    \A c \in Calls :
        (/\ Signed(c)
         /\ BodyRead(c)
         /\ ReqOf(c).method = "GET"
         /\ InWindow(c)
         /\ ReqOf(c).apiSig = Present(Sign(secret_key, LastSegment(ReqOf(c).target))))
            => Accepted(c)

\* C8: whenever verification succeeds the request handed to the wrapped
\* endpoint is the request the client sent: the bytes taken out of it and
\* read are its body again, and method, target and headers are unchanged.
C8_BodyRestored == \A c \in Calls : Accepted(c) => calls[c].fwd = calls[c].req

\* a GET with a body, which the signing string leaves out, has been passed
\* on with the body that was taken out of it and read
C8_Witness ==
    /\ Accepted("A")
    /\ ReqOf("A").method = "GET"
    /\ ReqOf("A").body = Accented
    /\ calls["A"].fwd[1].body = Accented

\* C9: a response leaves the no-cache filter with exactly the three header
\* values, each replacing whatever the wrapped endpoint had set, and with
\* its status and other headers untouched.
C9_NoCacheHeaders ==
    \A c \in Calls :
        (calls[c].ep = "nocache" /\ calls[c].down # <<>> /\ calls[c].down[1].kind = "ok")
            => /\ calls[c].result[1].kind = "ok"
               /\ calls[c].result[1].status = calls[c].down[1].status
               /\ calls[c].result[1].headers["cache-control"] = <<CacheControlValue>>
               /\ calls[c].result[1].headers["expires"] = <<ExpiresValue>>
               /\ calls[c].result[1].headers["pragma"] = <<PragmaValue>>
               /\ calls[c].result[1].headers["content-type"]
                    = calls[c].down[1].headers["content-type"]

\* the wrapped endpoint had set other values for all three headers
C9_Witness ==
    /\ calls["A"].ep = "nocache"
    /\ calls["A"].pc = "done"
    /\ calls["A"].down[1].kind = "ok"
    /\ calls["A"].down[1].headers["cache-control"] = <<"private", "max-age=60">>
    /\ calls["A"].down[1].headers["expires"] = <<"Thu, 01 Jan 2099 00:00:00 GMT">>
    /\ calls["A"].down[1].headers["pragma"] = <<"cache">>
    /\ calls["A"].result[1].headers["cache-control"] = <<CacheControlValue>>

\* C10: every request with an apiSig header whose timestamp parses and lies
\* farther than allowed_time_window from the call's clock reading, over the
\* integers, is rejected with status 401: no overflow, wrap-around or panic.
C10_WindowExact ==
    \A c \in Calls :
        (Signed(c) /\ ReqOf(c).apiSig # Absent /\ HasTimestamp(c) /\ ~InWindow(c))
            => Rejected401(c)
====
